---- MODULE Spec2Model ----
(***************************************************************************)
(* selectag: the select and verify commands of cmd/root.go and             *)
(* cmd/verify.go (src/unnamed/part_000, second version), with the tag      *)
(* prefix extractor, the version resolver, the version proposer, the       *)
(* concurrent update checker and the report ranker.                        *)
(*                                                                         *)
(* A Go string is a sequence of one-character strings, so that prefix      *)
(* stripping, splitting, parsing and formatting are computed, not assumed. *)
(***************************************************************************)
EXTENDS Integers, Sequences, FiniteSets, TLC

VARIABLES
    cmd,            \* "select" | "verify" | "functions": what is running
    defaultBranch,  \* the package variable defaultBranch
    flagPrefix,     \* the --prefix flag (package variable prefix)
    isPathBased,    \* the --path-based flag
    repoTags,       \* the repository's tags, in the order git lists them
    pathCommits,    \* per prefix: commits since its current tag touching its path
    otherCommits,   \* per prefix: commits since its current tag touching other paths
    pc,             \* position of the command's main goroutine
    prefixes,       \* verify/runSelectTag: var prefixes []string
    ret,            \* what the command returned: "none" | "ok" | "error" | "panic"
    failed,         \* external commands that failed, in order
    executed,       \* external commands started, in order
    task,           \* verify: per dispatched task, its position and locals
    lock,           \* verify: holder of sync.Mutex lock (0: free)
    results,        \* verify: var results []*result
    egErr,          \* verify: the errgroup's first error (<<>>: none)
    printed,        \* verify: the report lines printed, in order
    selectedPrefix, \* runSelectTag: var selectedPrefix
    versionOptions, \* runSelectTag: what generateNewVersionOptions returned
    newVersion,     \* runSelectTag: var newVersion
    current,        \* the resolver's last answer [err, version]
    answers         \* runSelectTag: the operator's answers to continued()

vars == <<cmd, defaultBranch, flagPrefix, isPathBased, repoTags, pathCommits, otherCommits, pc,
          prefixes, ret, failed, executed, task, lock, results, egErr, printed,
          selectedPrefix, versionOptions, newVersion, current, answers>>

----------------------------------------------------------------------------
(* Bounds of the model. *)

\* Longest tag list drawn for the function-level specification.
MaxTags == 3
\* Most commits since a prefix's tag that touch its path.
MaxChanges == 1
\* Most commits since the tags that touch no prefix's path.
MaxOther == 1

----------------------------------------------------------------------------
(* Strings. *)

Digits == {"0", "1", "2", "3", "4", "5", "6", "7", "8", "9"}
Letters == {"a", "b", "c", "r", "v", "x"}

\* Byte value of a character (ASCII), for strings.Compare and Go's string <.
Ord(c) ==
    CASE c = "\n" -> 10 [] c = " " -> 32 [] c = "-" -> 45 [] c = "." -> 46
      [] c = "/" -> 47 [] c = "0" -> 48 [] c = "1" -> 49 [] c = "2" -> 50
      [] c = "3" -> 51 [] c = "4" -> 52 [] c = "5" -> 53 [] c = "6" -> 54
      [] c = "7" -> 55 [] c = "8" -> 56 [] c = "9" -> 57 [] c = "a" -> 97
      [] c = "b" -> 98 [] c = "c" -> 99 [] c = "r" -> 114 [] c = "v" -> 118
      [] c = "x" -> 120 [] c = "~" -> 126

DigitVal(c) == Ord(c) - 48

DigitChar(d) ==
    CASE d = 0 -> "0" [] d = 1 -> "1" [] d = 2 -> "2" [] d = 3 -> "3"
      [] d = 4 -> "4" [] d = 5 -> "5" [] d = 6 -> "6" [] d = 7 -> "7"
      [] d = 8 -> "8" [] d = 9 -> "9"

\* strings.HasPrefix
HasPrefix(s, p) == Len(p) <= Len(s) /\ SubSeq(s, 1, Len(p)) = p

\* strings.TrimPrefix
TrimPrefix(s, p) == IF HasPrefix(s, p) THEN SubSeq(s, Len(p) + 1, Len(s)) ELSE s

IsSpace(c) == c \in {" ", "\n"}

RECURSIVE TrimLeft(_)
TrimLeft(s) == IF s # <<>> /\ IsSpace(Head(s)) THEN TrimLeft(Tail(s)) ELSE s

RECURSIVE TrimRight(_)
TrimRight(s) ==
    IF s # <<>> /\ IsSpace(s[Len(s)]) THEN TrimRight(SubSeq(s, 1, Len(s) - 1)) ELSE s

\* strings.TrimSpace
TrimSpace(s) == TrimRight(TrimLeft(s))

\* Index of the first sep in s at or after position i (0: none).
RECURSIVE IndexFrom(_, _, _)
IndexFrom(s, sep, i) ==
    IF i > Len(s) THEN 0 ELSE IF s[i] = sep THEN i ELSE IndexFrom(s, sep, i + 1)

\* strings.Split(s, sep) for a one-character sep: never an empty list.
RECURSIVE Split(_, _)
Split(s, sep) ==
    LET i == IndexFrom(s, sep, 1)
    IN  IF i = 0 THEN <<s>>
        ELSE <<SubSeq(s, 1, i - 1)>> \o Split(SubSeq(s, i + 1, Len(s)), sep)

\* strings.Compare: bytewise lexicographic, -1 | 0 | 1.
RECURSIVE Compare(_, _)
Compare(a, b) ==
    IF a = <<>> /\ b = <<>> THEN 0
    ELSE IF a = <<>> THEN -1
    ELSE IF b = <<>> THEN 1
    ELSE IF Ord(Head(a)) < Ord(Head(b)) THEN -1
    ELSE IF Ord(Head(a)) > Ord(Head(b)) THEN 1
    ELSE Compare(Tail(a), Tail(b))

IsDigits(s) == s # <<>> /\ \A i \in 1..Len(s) : s[i] \in Digits

\* strconv.ParseInt(s, 10, 64) of a digit string.
RECURSIVE ToNat(_)
ToNat(s) == IF s = <<>> THEN 0 ELSE 10 * ToNat(SubSeq(s, 1, Len(s) - 1)) + DigitVal(s[Len(s)])

\* fmt.Sprintf("%d", n) for n >= 0.
RECURSIVE NatToStr(_)
NatToStr(n) == IF n < 10 THEN <<DigitChar(n)>> ELSE NatToStr(n \div 10) \o <<DigitChar(n % 10)>>

\* fmt.Sprintf("%d.%d.%d", a, b, c)
FormatVersion(a, b, c) == NatToStr(a) \o <<".">> \o NatToStr(b) \o <<".">> \o NatToStr(c)

----------------------------------------------------------------------------
(* github.com/hashicorp/go-version, as far as the program uses it. *)

PreChars == Digits \cup Letters \cup {"-", "~"}

\* The prerelease part of the semver pattern: dot-separated non-empty
\* identifiers over [0-9A-Za-z~-].
PreOk(p) ==
    LET parts == Split(p, ".")
    IN  \A i \in 1..Len(parts) :
            parts[i] # <<>> /\ \A k \in 1..Len(parts[i]) : parts[i][k] \in PreChars

PadSegments(seg) ==
    IF Len(seg) >= 3 THEN seg ELSE seg \o [i \in 1..(3 - Len(seg)) |-> 0]

\* version.NewSemver: v?digits(.digits)*(-prerelease)?, anchored at both ends.
\* [ok, seg, pre]; fewer than three segments are padded with zeros.
NewSemver(str) ==
    LET s1   == IF str # <<>> /\ Head(str) = "v" THEN Tail(str) ELSE str
        dash == IndexFrom(s1, "-", 1)
        core == IF dash = 0 THEN s1 ELSE SubSeq(s1, 1, dash - 1)
        pre  == IF dash = 0 THEN <<>> ELSE SubSeq(s1, dash + 1, Len(s1))
        nums == Split(core, ".")
        ok   == /\ \A i \in 1..Len(nums) : IsDigits(nums[i])
                /\ (dash # 0 => PreOk(pre))
    IN  IF ok
        THEN [ok |-> TRUE, seg |-> PadSegments([i \in 1..Len(nums) |-> ToNat(nums[i])]),
              pre |-> pre]
        ELSE [ok |-> FALSE, seg |-> <<>>, pre |-> <<>>]

\* comparePart of two prerelease identifiers.
ComparePart(a, b) ==
    LET aNum == IsDigits(a)
        bNum == IsDigits(b)
    IN  IF a = b THEN 0
        ELSE IF a = <<>> THEN (IF bNum THEN -1 ELSE 1)
        ELSE IF b = <<>> THEN (IF aNum THEN 1 ELSE -1)
        ELSE IF aNum /\ ~bNum THEN -1
        ELSE IF ~aNum /\ bNum THEN 1
        ELSE IF ~aNum /\ ~bNum THEN (IF Compare(a, b) > 0 THEN 1 ELSE -1)
        ELSE IF ToNat(a) > ToNat(b) THEN 1 ELSE -1

RECURSIVE ComparePartsFrom(_, _, _)
ComparePartsFrom(pa, pb, i) ==
    IF i > Len(pa) /\ i > Len(pb) THEN 0
    ELSE LET a == IF i <= Len(pa) THEN pa[i] ELSE <<>>
             b == IF i <= Len(pb) THEN pb[i] ELSE <<>>
             c == ComparePart(a, b)
         IN  IF c # 0 THEN c ELSE ComparePartsFrom(pa, pb, i + 1)

\* comparePrereleases
ComparePrereleases(p, q) ==
    IF p = q THEN 0 ELSE ComparePartsFrom(Split(p, "."), Split(q, "."), 1)

RECURSIVE CompareSegmentsFrom(_, _, _)
CompareSegmentsFrom(sa, sb, i) ==
    IF i > Len(sa) /\ i > Len(sb) THEN 0
    ELSE LET a == IF i <= Len(sa) THEN sa[i] ELSE 0
             b == IF i <= Len(sb) THEN sb[i] ELSE 0
         IN  IF a < b THEN -1 ELSE IF a > b THEN 1 ELSE CompareSegmentsFrom(sa, sb, i + 1)

\* Version.Compare: segments numerically; with equal segments a release is
\* greater than each of its prereleases.
VersionCompare(v, w) ==
    IF v.seg = w.seg
    THEN IF v.pre = <<>> /\ w.pre = <<>> THEN 0
         ELSE IF v.pre = <<>> THEN 1
         ELSE IF w.pre = <<>> THEN -1
         ELSE ComparePrereleases(v.pre, w.pre)
    ELSE CompareSegmentsFrom(v.seg, w.seg, 1)

\* Version.GreaterThan
GreaterThan(v, w) == VersionCompare(v, w) > 0

----------------------------------------------------------------------------
(* The external commands, as the program sees them. *)

RECURSIVE JoinLines(_)
JoinLines(tags) ==
    IF tags = <<>> THEN <<>> ELSE Head(tags) \o <<"\n">> \o JoinLines(Tail(tags))

RECURSIVE SelectTags(_, _)
SelectTags(tags, pattern) ==
    IF tags = <<>> THEN <<>>
    ELSE (IF HasPrefix(Head(tags), pattern) THEN <<Head(tags)>> ELSE <<>>)
             \o SelectTags(Tail(tags), pattern)

\* Standard output of `git tag -l`: one tag per line.
GitTagAll(repo) == JoinLines(repo)

\* Standard output of `git tag --list <pattern>**`: the tags the glob matches
\* (* matches any characters, "/" too), one per line; nothing for no match.
GitTagList(repo, pattern) == JoinLines(SelectTags(repo, pattern))

Range(s) == {s[i] : i \in 1..Len(s)}

----------------------------------------------------------------------------
(* cmd/root.go: the functions. *)

\* getGitTagFromVersion that joins prefix and version without the slash.
getGitTagFromVersionNoSlash(prefix, version) == prefix \o <<"v">> \o version

getGitTagFromVersion(prefix, version) ==
    IF prefix = <<>> THEN <<"v">> \o version ELSE prefix \o <<"/", "v">> \o version

\* The pattern the resolver matches tags with.
MatchPrefix(prefix) == IF prefix = <<>> THEN <<"v">> ELSE prefix \o <<"/", "v">>

\* The comparison function handed to slices.SortFunc.
tagCmp(i, j, prefix) ==
    LET vi == NewSemver(TrimPrefix(i, prefix))
        vj == NewSemver(TrimPrefix(j, prefix))
    IN  IF ~vi.ok \/ ~vj.ok THEN 0
        ELSE IF GreaterThan(vi, vj) THEN -1
        ELSE 1

Swap(data, i, j) == [data EXCEPT ![i] = data[j], ![j] = data[i]]

\* slices.SortFunc on at most 12 elements is insertion sort.
RECURSIVE InsertTag(_, _, _)
InsertTag(data, j, prefix) ==
    IF j > 1 /\ tagCmp(data[j], data[j - 1], prefix) < 0
    THEN InsertTag(Swap(data, j, j - 1), j - 1, prefix)
    ELSE data

RECURSIVE SortTagsFrom(_, _, _)
SortTagsFrom(data, i, prefix) ==
    IF i > Len(data) THEN data ELSE SortTagsFrom(InsertTag(data, i, prefix), i + 1, prefix)

SortTags(data, prefix) == SortTagsFrom(data, 2, prefix)

\* getCurrentVersion(prefix), given the repository and whether git fails:
\* (version, err).
getCurrentVersion(prefix, repo, gitFails) ==
    LET mp     == MatchPrefix(prefix)
        output == GitTagList(repo, mp)
        tags   == Split(TrimSpace(output), "\n")
    IN  IF gitFails THEN [err |-> TRUE, version |-> <<>>]
        ELSE IF Len(tags) = 0 THEN [err |-> TRUE, version |-> <<>>]
        ELSE [err |-> FALSE,
              version |-> TrimPrefix(TrimSpace(SortTags(tags, mp)[1]), mp)]

\* Largest i with tag[i] = "/", tag[i+1] = "v", tag[i+2] a digit (0: none): the
\* greedy (.*) of ^((.*)/v\d+|v\d+), whose first alternative is preferred.
RECURSIVE LastMarker(_, _)
LastMarker(tag, i) ==
    IF i < 1 THEN 0
    ELSE IF i + 2 <= Len(tag) /\ tag[i] = "/" /\ tag[i + 1] = "v" /\ tag[i + 2] \in Digits
         THEN i
         ELSE LastMarker(tag, i - 1)

RECURSIVE DigitRunEnd(_, _)
DigitRunEnd(tag, i) ==
    IF i + 1 <= Len(tag) /\ tag[i + 1] \in Digits THEN DigitRunEnd(tag, i + 1) ELSE i

\* Smallest i with tag[i] = "/", tag[i+1] = "v", tag[i+2] a digit (0: none).
RECURSIVE FirstMarker(_, _)
FirstMarker(tag, i) ==
    IF i + 2 > Len(tag) THEN 0
    ELSE IF tag[i] = "/" /\ tag[i + 1] = "v" /\ tag[i + 2] \in Digits THEN i
    ELSE FirstMarker(tag, i + 1)

\* FindStringSubmatch for the pattern with a lazy group, ^((.*?)/v\d+|v\d+).
FindStringSubmatchLazy(tag) ==
    LET m == FirstMarker(tag, 1)
    IN  IF m > 0
        THEN LET e == DigitRunEnd(tag, m + 2)
             IN  <<SubSeq(tag, 1, e), SubSeq(tag, 1, e), SubSeq(tag, 1, m - 1)>>
        ELSE IF Len(tag) >= 2 /\ tag[1] = "v" /\ tag[2] \in Digits
        THEN LET e == DigitRunEnd(tag, 2)
             IN  <<SubSeq(tag, 1, e), SubSeq(tag, 1, e), <<>>>>
        ELSE <<>>

\* versionPattern.FindStringSubmatch(tag): <<>> for no match, else the match
\* and both groups (a group that took no part is the empty string).
FindStringSubmatch(tag) ==
    LET m == LastMarker(tag, Len(tag))
    IN  IF m > 0
        THEN LET e == DigitRunEnd(tag, m + 2)
             IN  <<SubSeq(tag, 1, e), SubSeq(tag, 1, e), SubSeq(tag, 1, m - 1)>>
        ELSE IF Len(tag) >= 2 /\ tag[1] = "v" /\ tag[2] \in Digits
        THEN LET e == DigitRunEnd(tag, 2)
             IN  <<SubSeq(tag, 1, e), SubSeq(tag, 1, e), <<>>>>
        ELSE <<>>

\* A loop body that files every tag the pattern does not match under the root.
AddTagPrefixUnmatchedRoot(prefixMap, line) ==
    LET tag     == TrimSpace(line)
        matches == FindStringSubmatch(tag)
    IN  IF tag = <<>> THEN prefixMap
        ELSE IF Len(matches) > 2 THEN prefixMap \cup {matches[3]}
        ELSE prefixMap \cup {<<>>}

\* The loop body of collectTagPrefixesFromGit: prefixMap after one tag.
AddTagPrefix(prefixMap, line) ==
    LET tag     == TrimSpace(line)
        matches == FindStringSubmatch(tag)
    IN  IF tag = <<>> THEN prefixMap
        ELSE IF Len(matches) > 2 THEN prefixMap \cup {matches[3]}
        ELSE IF Len(matches) > 1 THEN prefixMap \cup {<<>>}
        ELSE prefixMap

RECURSIVE CollectFrom(_, _)
CollectFrom(tags, prefixMap) ==
    IF tags = <<>> THEN prefixMap
    ELSE CollectFrom(Tail(tags), AddTagPrefix(prefixMap, Head(tags)))

\* collectTagPrefixesFromGit(): the keys of prefixMap (the error is always nil).
collectTagPrefixesFromGit(repo, gitFails) ==
    LET tags == Split(TrimSpace(GitTagAll(repo)), "\n")
    IN  IF gitFails THEN {}
        ELSE IF Len(tags) = 1 /\ tags[1] = <<>> THEN {}
        ELSE CollectFrom(tags, {})

\* generateNewVersionOptions with the remove-prerelease option appended after
\* the three bumps instead of put before them.
generateNewVersionOptionsAppended(cur) ==
    LET v     == NewSemver(cur.version)
        seg   == v.seg
        suggestions == <<[kind |-> "patch", value |-> FormatVersion(seg[1], seg[2], seg[3] + 1)],
                         [kind |-> "minor", value |-> FormatVersion(seg[1], seg[2] + 1, 0)],
                         [kind |-> "major", value |-> FormatVersion(seg[1] + 1, 0, 0)]>>
    IN  IF cur.err \/ ~v.ok THEN [panic |-> TRUE, options |-> <<>>]
        ELSE IF Len(v.pre) > 0
        THEN [panic |-> FALSE,
              options |-> suggestions
                          \o <<[kind |-> "remove prerelease",
                                value |-> FormatVersion(seg[1], seg[2], seg[3])]>>]
        ELSE [panic |-> FALSE, options |-> suggestions]

\* generateNewVersionOptions, given what getCurrentVersion answered:
\* the options in menu order, or a panic.
generateNewVersionOptions(cur) ==
    LET v     == NewSemver(cur.version)
        seg   == v.seg
        major == FormatVersion(seg[1] + 1, 0, 0)
        minor == FormatVersion(seg[1], seg[2] + 1, 0)
        patch == FormatVersion(seg[1], seg[2], seg[3] + 1)
        suggestions == <<[kind |-> "patch", value |-> patch],
                         [kind |-> "minor", value |-> minor],
                         [kind |-> "major", value |-> major]>>
    IN  IF cur.err \/ ~v.ok THEN [panic |-> TRUE, options |-> <<>>]
        ELSE IF Len(v.pre) > 0
        THEN [panic |-> FALSE,
              options |-> <<[kind |-> "remove prerelease",
                             value |-> FormatVersion(seg[1], seg[2], seg[3])]>>
                          \o suggestions]
        ELSE [panic |-> FALSE, options |-> suggestions]

\* validateVersion(s): TRUE when it returns nil.
validateVersion(s) ==
    IF s = <<>> THEN FALSE
    ELSE NewSemver(IF HasPrefix(s, <<"v">>) THEN s ELSE <<"v">> \o s).ok

----------------------------------------------------------------------------
(* The repositories and flags the command-level specification runs on. *)

Root == <<"r", "o", "o", "t">>

TagA100  == <<"a", "/", "v", "1", ".", "0", ".", "0">>
TagA110  == <<"a", "/", "v", "1", ".", "1", ".", "0">>
TagA2210 == <<"a", "/", "v", "2", "/", "v", "2", ".", "1", ".", "0">>
TagB010  == <<"b", "/", "v", "0", ".", "1", ".", "0">>
TagV120  == <<"v", "1", ".", "2", ".", "0">>
TagV1100 == <<"v", "1", ".", "1", "0", ".", "0">>
TagV200  == <<"v", "2", ".", "0", ".", "0">>
TagV200rc1 == <<"v", "2", ".", "0", ".", "0", "-", "r", "c", "1">>
TagVx    == <<"v", "x">>
TagRel1  == <<"r", "-", "1">>

\* The tag of the repository that stands on a branch never merged: it is
\* not reachable from origin/<defaultBranch>.
SideBranchTags == {TagV200}

\* The branch of the remote, and the strings of the default-branch detection.
Main == <<"m", "a", "i", "n">>
Origin == <<"o", "r", "i", "g", "i", "n", "/">>
RemoteBranches == {Main}

\* origin/<defaultBranch> names a commit.
BranchResolves == defaultBranch \in RemoteBranches

\* --prefix: not given, the literal root, a module name.
Flags == {<<>>, Root, <<"a">>}

CliRepos ==
    { <<>>,
      <<TagA100, TagB010, TagV120>>,
      <<TagV200rc1, TagV1100>>,
      <<TagA2210, TagA110>> }

\* The prefixes a run works on when discovery succeeds.
RunPrefixes(flag, repo) ==
    IF flag = Root THEN {<<>>}
    ELSE IF flag # <<>> THEN {TrimSpace(flag)}
    ELSE collectTagPrefixesFromGit(repo, FALSE)

\* Every order of a set: the order of maps.Keys is unspecified.
Orders(S) ==
    {s \in [1..Cardinality(S) -> S] : \A i, j \in 1..Cardinality(S) : i # j => s[i] # s[j]}

\* Lines 48-59 of runSelectTag, 111-122 of verify: the prefixes to work on.
DiscoverPrefixes(flag, repo, gitFails) ==
    IF flag = Root THEN {<<>>}
    ELSE IF flag # <<>> THEN {TrimSpace(flag)}
    ELSE collectTagPrefixesFromGit(repo, gitFails)

NoErr == <<>>

\* An external command in the logs: its name and its main argument.
Ran(name, arg) == <<name, arg>>

----------------------------------------------------------------------------
(* verify *)

\* runtime.NumCPU() of the machine.
NumCPU == 1
\* eg.SetLimit(runtime.NumCPU() * 8)
PoolLimit == NumCPU * 8

RECURSIVE LogLines(_)
LogLines(n) == IF n = 0 THEN <<>> ELSE <<"c", "\n">> \o LogLines(n - 1)

\* Standard output of `git log --oneline <tag>..origin/<branch> [-- <path>]`:
\* one line per commit.
GitLog(prefix, scoped) ==
    LogLines(IF scoped THEN pathCommits[prefix] ELSE pathCommits[prefix] + otherCommits)

\* strings.Count(s, "\n")
CountNewlines(s) == Cardinality({i \in 1..Len(s) : s[i] = "\n"})

\* checkForUpdates as the first version of verify had it (lines 42-59): the
\* path is appended whenever path-based mode is on, for the root prefix too.
checkForUpdatesFirstVersion(prefix, version, gitFails) ==
    LET tag    == getGitTagFromVersion(prefix, version)
        scoped == isPathBased
        buf    == GitLog(prefix, scoped)
    IN  IF gitFails \/ tag \notin Range(repoTags) \/ ~BranchResolves
        THEN [err |-> TRUE, numChanges |-> 0]
        ELSE IF Len(buf) > 0 THEN [err |-> FALSE, numChanges |-> CountNewlines(buf)]
        ELSE [err |-> FALSE, numChanges |-> 0]

\* checkForUpdates(prefix, version), given whether git fails: (numChanges, err).
checkForUpdates(prefix, version, gitFails) ==
    LET tag    == getGitTagFromVersion(prefix, version)
        scoped == isPathBased /\ prefix # <<>>
        buf    == GitLog(prefix, scoped)
    IN  IF gitFails \/ tag \notin Range(repoTags) \/ ~BranchResolves
        THEN [err |-> TRUE, numChanges |-> 0]
        ELSE IF Len(buf) > 0 THEN [err |-> FALSE, numChanges |-> CountNewlines(buf)]
        ELSE [err |-> FALSE, numChanges |-> 0]

\* cmpResult as its comment words it, "sort by numChanges ascending", with no
\* special place for zero.
cmpResultAscending(a, b) ==
    IF a.numChanges = b.numChanges THEN Compare(a.prefix, b.prefix)
    ELSE a.numChanges - b.numChanges

\* cmpResult without the tie-break on the prefix.
cmpResultNoTieBreak(a, b) ==
    IF a.numChanges = b.numChanges THEN 0
    ELSE IF a.numChanges = 0 THEN 1
    ELSE IF b.numChanges = 0 THEN -1
    ELSE b.numChanges - a.numChanges

\* The comparison function of the report (lines 173-186).
cmpResult(a, b) ==
    IF a.numChanges = b.numChanges THEN Compare(a.prefix, b.prefix)
    ELSE IF a.numChanges = 0 THEN 1
    ELSE IF b.numChanges = 0 THEN -1
    ELSE b.numChanges - a.numChanges

RECURSIVE InsertResult(_, _)
InsertResult(data, j) ==
    IF j > 1 /\ cmpResult(data[j], data[j - 1]) < 0
    THEN InsertResult(Swap(data, j, j - 1), j - 1)
    ELSE data

RECURSIVE SortResultsFrom(_, _)
SortResultsFrom(data, i) ==
    IF i > Len(data) THEN data ELSE SortResultsFrom(InsertResult(data, i), i + 1)

\* slices.SortedFunc(slices.Values(results), cmp)
SortedFunc(data) == SortResultsFrom(data, 2)

\* The line printed for one result.
ReportLine(r) ==
    [kind |-> IF r.numChanges > 0 THEN "updates" ELSE "no updates",
     numChanges |-> r.numChanges, prefix |-> r.prefix]

Active == Cardinality({t \in 1..Len(task) : task[t].pc # "done"})

\* An errgroup that blames the prefix dispatched first, whichever task failed.
FirstErrBlamesFirst(e) == IF egErr = NoErr THEN <<e[1], prefixes[1]>> ELSE egErr

\* The errgroup keeps the first error only.
FirstErr(e) == IF egErr = NoErr THEN e ELSE egErr

VerifyDiscover ==
    /\ cmd = "verify" /\ pc = "start"
    /\ \E gitFails \in BOOLEAN :
         /\ (gitFails => flagPrefix = <<>>)
         /\ \E order \in Orders(DiscoverPrefixes(flagPrefix, repoTags, gitFails)) :
                prefixes' = order
         /\ executed' = IF flagPrefix = <<>>
                        THEN Append(executed, Ran("tag-all", <<>>)) ELSE executed
         /\ failed' = IF gitFails THEN Append(failed, Ran("tag-all", <<>>)) ELSE failed
    /\ pc' = "dispatch"
    /\ UNCHANGED <<cmd, defaultBranch, flagPrefix,
                   isPathBased, repoTags, pathCommits, otherCommits,
                   ret, task, lock, results, egErr, printed, selectedPrefix,
                   versionOptions, newVersion, current, answers>>

\* eg.Go(func) of a group whose limit was never set: the task starts at once.
VerifyGoUnbounded ==
    /\ cmd = "verify" /\ pc = "dispatch"
    /\ Len(task) < Len(prefixes)
    /\ task' = Append(task, [pc |-> "resolve", prefix |-> prefixes[Len(task) + 1],
                             version |-> <<>>, numChanges |-> 0, err |-> NoErr,
                             ran |-> <<>>])
    /\ UNCHANGED <<cmd, defaultBranch, flagPrefix,
                   isPathBased, repoTags, pathCommits, otherCommits,
                   pc, prefixes, ret, failed, executed, lock, results, egErr, printed,
                   selectedPrefix, versionOptions, newVersion, current, answers>>

\* eg.Go(func): waits for a free slot of the pool, then starts the task.
VerifyGo ==
    /\ cmd = "verify" /\ pc = "dispatch"
    /\ Len(task) < Len(prefixes)
    /\ Active < PoolLimit
    /\ task' = Append(task, [pc |-> "resolve", prefix |-> prefixes[Len(task) + 1],
                             version |-> <<>>, numChanges |-> 0, err |-> NoErr,
                             ran |-> <<>>])
    /\ UNCHANGED <<cmd, defaultBranch, flagPrefix,
                   isPathBased, repoTags, pathCommits, otherCommits,
                   pc, prefixes, ret, failed, executed, lock, results, egErr, printed,
                   selectedPrefix, versionOptions, newVersion, current, answers>>

\* current, err := getCurrentVersion(p)
TaskResolve(t) ==
    /\ task[t].pc = "resolve"
    /\ \E gitFails \in BOOLEAN :
         LET cur == getCurrentVersion(task[t].prefix, repoTags, gitFails)
             e   == <<"version", task[t].prefix>>
         IN  IF cur.err
             THEN /\ task' = [task EXCEPT ![t].pc = "done", ![t].err = e,
                                          ![t].ran = Append(@, "tag-list")]
                  /\ egErr' = FirstErr(e)
             ELSE /\ task' = [task EXCEPT ![t].pc = "check", ![t].version = cur.version,
                                          ![t].ran = Append(@, "tag-list")]
                  /\ egErr' = egErr
    /\ UNCHANGED <<cmd, defaultBranch, flagPrefix,
                   isPathBased, repoTags, pathCommits, otherCommits,
                   pc, prefixes, ret, failed, executed, lock, results, printed,
                   selectedPrefix, versionOptions, newVersion, current, answers>>

\* result.numChanges, err = checkForUpdates(p, current)
TaskCheck(t) ==
    /\ task[t].pc = "check"
    /\ \E gitFails \in BOOLEAN :
         LET r == checkForUpdates(task[t].prefix, task[t].version, gitFails)
             e == <<"log", task[t].prefix>>
         IN  IF r.err
             THEN /\ task' = [task EXCEPT ![t].pc = "done", ![t].err = e,
                                          ![t].ran = Append(@, "log")]
                  /\ egErr' = FirstErr(e)
             ELSE /\ task' = [task EXCEPT ![t].pc = "lock", ![t].numChanges = r.numChanges,
                                          ![t].ran = Append(@, "log")]
                  /\ egErr' = egErr
    /\ UNCHANGED <<cmd, defaultBranch, flagPrefix,
                   isPathBased, repoTags, pathCommits, otherCommits,
                   pc, prefixes, ret, failed, executed, lock, results, printed,
                   selectedPrefix, versionOptions, newVersion, current, answers>>

\* lock.Lock() that does not wait for the holder to unlock.
TaskLockNoWait(t) ==
    /\ task[t].pc = "lock"
    /\ lock' = t
    /\ task' = [task EXCEPT ![t].pc = "append"]
    /\ UNCHANGED <<cmd, defaultBranch, flagPrefix,
                   isPathBased, repoTags, pathCommits, otherCommits,
                   pc, prefixes, ret, failed, executed, results, egErr, printed,
                   selectedPrefix, versionOptions, newVersion, current, answers>>

\* lock.Lock()
TaskLock(t) ==
    /\ task[t].pc = "lock"
    /\ lock = 0
    /\ lock' = t
    /\ task' = [task EXCEPT ![t].pc = "append"]
    /\ UNCHANGED <<cmd, defaultBranch, flagPrefix,
                   isPathBased, repoTags, pathCommits, otherCommits,
                   pc, prefixes, ret, failed, executed, results, egErr, printed,
                   selectedPrefix, versionOptions, newVersion, current, answers>>

\* The result of a task whose closure shares the loop variable p with the
\* dispatch loop (Go before 1.22): the prefix is the one dispatched last.
TaskResultSharedLoopVar(t) ==
    [prefix |-> prefixes[Len(task)], numChanges |-> task[t].numChanges]

\* What the task appends: its own result.
TaskResult(t) == [prefix |-> task[t].prefix, numChanges |-> task[t].numChanges]

\* results = append(results, &result)
AppendResult(rs, r) == Append(rs, r)

TaskAppend(t) ==
    /\ task[t].pc = "append"
    /\ results' = AppendResult(results, TaskResult(t))
    /\ task' = [task EXCEPT ![t].pc = "unlock"]
    /\ UNCHANGED <<cmd, defaultBranch, flagPrefix,
                   isPathBased, repoTags, pathCommits, otherCommits,
                   pc, prefixes, ret, failed, executed, lock, egErr, printed,
                   selectedPrefix, versionOptions, newVersion, current, answers>>

\* return nil of a task that never deferred lock.Unlock(): the lock stays taken.
TaskUnlockForgotten(t) ==
    /\ task[t].pc = "unlock"
    /\ lock' = lock
    /\ task' = [task EXCEPT ![t].pc = "done"]
    /\ UNCHANGED <<cmd, defaultBranch, flagPrefix,
                   isPathBased, repoTags, pathCommits, otherCommits,
                   pc, prefixes, ret, failed, executed, results, egErr, printed,
                   selectedPrefix, versionOptions, newVersion, current, answers>>

\* return nil, running the deferred lock.Unlock()
TaskUnlock(t) ==
    /\ task[t].pc = "unlock"
    /\ lock' = 0
    /\ task' = [task EXCEPT ![t].pc = "done"]
    /\ UNCHANGED <<cmd, defaultBranch, flagPrefix,
                   isPathBased, repoTags, pathCommits, otherCommits,
                   pc, prefixes, ret, failed, executed, results, egErr, printed,
                   selectedPrefix, versionOptions, newVersion, current, answers>>

AllTasksDone ==
    /\ Len(task) = Len(prefixes)
    /\ \A t \in 1..Len(task) : task[t].pc = "done"

\* A Wait that reports failure only when no task succeeded.
WaitResultMasked == IF results # <<>> THEN NoErr ELSE egErr

\* The error eg.Wait() hands back once every task has returned.
WaitResult == egErr

\* if err := eg.Wait(); err != nil { return err }
VerifyWait ==
    /\ cmd = "verify" /\ pc = "dispatch"
    /\ AllTasksDone
    /\ IF WaitResult # NoErr
       THEN pc' = "done" /\ ret' = "error"
       ELSE pc' = "report" /\ ret' = ret
    /\ UNCHANGED <<cmd, defaultBranch, flagPrefix,
                   isPathBased, repoTags, pathCommits, otherCommits,
                   prefixes, failed, executed, task, lock, results, egErr, printed,
                   selectedPrefix, versionOptions, newVersion, current, answers>>

\* The report loop, then return nil.
VerifyReport ==
    /\ cmd = "verify" /\ pc = "report"
    /\ printed' = [i \in 1..Len(results) |-> ReportLine(SortedFunc(results)[i])]
    /\ pc' = "done" /\ ret' = "ok"
    /\ UNCHANGED <<cmd, defaultBranch, flagPrefix,
                   isPathBased, repoTags, pathCommits, otherCommits,
                   prefixes, failed, executed, task, lock, results, egErr,
                   selectedPrefix, versionOptions, newVersion, current, answers>>

----------------------------------------------------------------------------
(* select: runSelectTag *)

SelectDiscover ==
    /\ cmd = "select" /\ pc = "start"
    /\ \E gitFails \in BOOLEAN :
         /\ (gitFails => flagPrefix = <<>>)
         /\ \E order \in Orders(DiscoverPrefixes(flagPrefix, repoTags, gitFails)) :
                /\ prefixes' = order
                /\ IF Len(order) = 0
                   THEN pc' = "done" /\ ret' = "error"
                   ELSE pc' = "form-prefix" /\ ret' = ret
         /\ executed' = IF flagPrefix = <<>>
                        THEN Append(executed, Ran("tag-all", <<>>)) ELSE executed
         /\ failed' = IF gitFails THEN Append(failed, Ran("tag-all", <<>>)) ELSE failed
    /\ UNCHANGED <<cmd, defaultBranch, flagPrefix,
                   isPathBased, repoTags, pathCommits, otherCommits,
                   task, lock, results, egErr, printed, selectedPrefix,
                   versionOptions, newVersion, current, answers>>

\* The first group of the form: the operator picks one of the prefixes.
SelectPickPrefix ==
    /\ cmd = "select" /\ pc = "form-prefix"
    /\ \E i \in 1..Len(prefixes) : selectedPrefix' = prefixes[i]
    /\ pc' = "form-options"
    /\ UNCHANGED <<cmd, defaultBranch, flagPrefix,
                   isPathBased, repoTags, pathCommits, otherCommits,
                   prefixes, ret, failed, executed, task, lock, results, egErr, printed,
                   versionOptions, newVersion, current, answers>>

\* The second group asks generateNewVersionOptions for its options.
SelectOptions ==
    /\ cmd = "select" /\ pc = "form-options"
    /\ \E gitFails \in BOOLEAN :
         LET cur == getCurrentVersion(selectedPrefix, repoTags, gitFails)
             r   == generateNewVersionOptions(cur)
             c   == Ran("tag-list", MatchPrefix(selectedPrefix))
         IN  /\ executed' = Append(executed, c)
             /\ failed' = IF gitFails THEN Append(failed, c) ELSE failed
             /\ current' = cur
             /\ IF r.panic
                THEN pc' = "done" /\ ret' = "panic" /\ versionOptions' = versionOptions
                ELSE pc' = "form-version" /\ ret' = ret /\ versionOptions' = r.options
    /\ UNCHANGED <<cmd, defaultBranch, flagPrefix,
                   isPathBased, repoTags, pathCommits, otherCommits,
                   prefixes, task, lock, results, egErr, printed, selectedPrefix,
                   newVersion, answers>>

\* The operator picks a version that validateVersion accepts and types the
\* release title (free text, handed to git tag -m as it is).
SelectPickVersion ==
    /\ cmd = "select" /\ pc = "form-version"
    /\ \E i \in 1..Len(versionOptions) :
         /\ validateVersion(versionOptions[i].value)
         /\ newVersion' = versionOptions[i].value
    /\ pc' = "resolve-old"
    /\ UNCHANGED <<cmd, defaultBranch, flagPrefix,
                   isPathBased, repoTags, pathCommits, otherCommits,
                   prefixes, ret, failed, executed, task, lock, results, egErr, printed,
                   selectedPrefix, versionOptions, current, answers>>

\* form.Run() returns an error: the operator interrupts the form.
SelectFormAbort ==
    /\ cmd = "select" /\ pc \in {"form-prefix", "form-version"}
    /\ pc' = "done" /\ ret' = "error"
    /\ UNCHANGED <<cmd, defaultBranch, flagPrefix,
                   isPathBased, repoTags, pathCommits, otherCommits,
                   prefixes, failed, executed, task, lock, results, egErr, printed,
                   selectedPrefix, versionOptions, newVersion, current, answers>>

\* oldVersion, err := getCurrentVersion(selectedPrefix)
SelectResolveOld ==
    /\ cmd = "select" /\ pc = "resolve-old"
    /\ \E gitFails \in BOOLEAN :
         LET cur == getCurrentVersion(selectedPrefix, repoTags, gitFails)
             c   == Ran("tag-list", MatchPrefix(selectedPrefix))
         IN  /\ executed' = Append(executed, c)
             /\ failed' = IF gitFails THEN Append(failed, c) ELSE failed
             /\ current' = cur
             /\ IF cur.err
                THEN pc' = "done" /\ ret' = "error"
                ELSE pc' = "tag" /\ ret' = ret
    /\ UNCHANGED <<cmd, defaultBranch, flagPrefix,
                   isPathBased, repoTags, pathCommits, otherCommits,
                   prefixes, task, lock, results, egErr, printed, selectedPrefix,
                   versionOptions, newVersion, answers>>

NewTag == getGitTagFromVersion(selectedPrefix, newVersion)
OldTag == getGitTagFromVersion(selectedPrefix, current.version)

\* git tag <newTag> -a -m <title> origin/<branch>; git refuses a tag that exists
\* and a branch it cannot resolve.
SelectCreateTag ==
    /\ cmd = "select" /\ pc = "tag"
    /\ \E cmdFails \in BOOLEAN :
         /\ ((NewTag \in Range(repoTags) \/ ~BranchResolves) => cmdFails)
         /\ executed' = Append(executed, Ran("tag", NewTag))
         /\ IF cmdFails
            THEN /\ failed' = Append(failed, Ran("tag", NewTag))
                 /\ pc' = "done" /\ ret' = "error" /\ repoTags' = repoTags
            ELSE /\ failed' = failed
                 /\ pc' = "confirm-push" /\ ret' = ret
                 /\ repoTags' = Append(repoTags, NewTag)
    /\ UNCHANGED <<cmd, defaultBranch, flagPrefix,
                   isPathBased, pathCommits, otherCommits,
                   prefixes, task, lock, results, egErr, printed, selectedPrefix,
                   versionOptions, newVersion, current, answers>>

\* continued whose answer is not looked at: the command goes on after a no.
continuedWhatever(answer, yes, no, panic) ==
    CASE answer = "yes" -> yes
      [] answer = "no" -> yes
      [] answer = "interrupt" -> panic

\* continued(title): the operator's answer, or a panic when the prompt fails.
continued(answer, yes, no, panic) ==
    CASE answer = "yes" -> yes
      [] answer = "no" -> no
      [] answer = "interrupt" -> panic

Answers == {"yes", "no", "interrupt"}

\* if !continued("Do you want to push the tag ...") { return nil }
SelectConfirmPush ==
    /\ cmd = "select" /\ pc = "confirm-push"
    /\ \E a \in Answers :
         /\ answers' = Append(answers, a)
         /\ pc' = continued(a, "push", "done", "done")
         /\ ret' = continued(a, ret, "ok", "panic")
    /\ UNCHANGED <<cmd, defaultBranch, flagPrefix,
                   isPathBased, repoTags, pathCommits, otherCommits,
                   prefixes, failed, executed, task, lock, results, egErr, printed,
                   selectedPrefix, versionOptions, newVersion, current>>

\* git push origin <newTag>
SelectPush ==
    /\ cmd = "select" /\ pc = "push"
    /\ \E cmdFails \in BOOLEAN :
         /\ executed' = Append(executed, Ran("push", NewTag))
         /\ IF cmdFails
            THEN /\ failed' = Append(failed, Ran("push", NewTag))
                 /\ pc' = "done" /\ ret' = "error"
            ELSE /\ failed' = failed
                 /\ pc' = "confirm-release" /\ ret' = ret
    /\ UNCHANGED <<cmd, defaultBranch, flagPrefix,
                   isPathBased, repoTags, pathCommits, otherCommits,
                   prefixes, task, lock, results, egErr, printed, selectedPrefix,
                   versionOptions, newVersion, current, answers>>

\* if !continued("Do you want to create a GitHub release now?") { return nil }
SelectConfirmRelease ==
    /\ cmd = "select" /\ pc = "confirm-release"
    /\ \E a \in Answers :
         /\ answers' = Append(answers, a)
         /\ pc' = continued(a, "release", "done", "done")
         /\ ret' = continued(a, ret, "ok", "panic")
    /\ UNCHANGED <<cmd, defaultBranch, flagPrefix,
                   isPathBased, repoTags, pathCommits, otherCommits,
                   prefixes, failed, executed, task, lock, results, egErr, printed,
                   selectedPrefix, versionOptions, newVersion, current>>

\* gh release create <newTag> --draft --generate-notes --notes-start-tag <oldTag>
SelectRelease ==
    /\ cmd = "select" /\ pc = "release"
    /\ \E cmdFails \in BOOLEAN :
         /\ executed' = Append(executed, Ran("release", NewTag))
         /\ failed' = IF cmdFails THEN Append(failed, Ran("release", NewTag)) ELSE failed
         /\ pc' = "done"
         /\ ret' = IF cmdFails THEN "error" ELSE "ok"
    /\ UNCHANGED <<cmd, defaultBranch, flagPrefix,
                   isPathBased, repoTags, pathCommits, otherCommits,
                   prefixes, task, lock, results, egErr, printed, selectedPrefix,
                   versionOptions, newVersion, current, answers>>

----------------------------------------------------------------------------
(* The command-level specification: one run of select or of verify. *)

NoVersion == [err |-> FALSE, version |-> <<>>]

InitCommon ==
    /\ defaultBranch = Main
    /\ pc = "start" /\ prefixes = <<>> /\ ret = "none"
    /\ failed = <<>> /\ executed = <<>>
    /\ task = <<>> /\ lock = 0 /\ results = <<>> /\ egErr = NoErr /\ printed = <<>>
    /\ selectedPrefix = <<>> /\ versionOptions = <<>> /\ newVersion = <<>>
    /\ current = NoVersion /\ answers = <<>>

Init ==
    /\ cmd \in {"select", "verify"}
    /\ flagPrefix \in Flags
    /\ repoTags \in CliRepos
    /\ IF cmd = "verify"
       THEN /\ isPathBased \in BOOLEAN
            /\ pathCommits \in [RunPrefixes(flagPrefix, repoTags) -> 0..MaxChanges]
            /\ otherCommits \in 0..MaxOther
       ELSE /\ isPathBased = TRUE
            /\ pathCommits = [p \in RunPrefixes(flagPrefix, repoTags) |-> 0]
            /\ otherCommits = 0
    /\ InitCommon

Next ==
    \/ VerifyDiscover
    \/ VerifyGo
    \/ \E t \in 1..Len(task) : TaskResolve(t)
    \/ \E t \in 1..Len(task) : TaskCheck(t)
    \/ \E t \in 1..Len(task) : TaskLock(t)
    \/ \E t \in 1..Len(task) : TaskAppend(t)
    \/ \E t \in 1..Len(task) : TaskUnlock(t)
    \/ VerifyWait
    \/ VerifyReport
    \/ SelectDiscover
    \/ SelectPickPrefix
    \/ SelectOptions
    \/ SelectPickVersion
    \/ SelectFormAbort
    \/ SelectResolveOld
    \/ SelectCreateTag
    \/ SelectConfirmPush
    \/ SelectPush
    \/ SelectConfirmRelease
    \/ SelectRelease

Spec == Init /\ [][Next]_vars

----------------------------------------------------------------------------
(* The function-level specification: the extractor, the resolver and the   *)
(* proposer applied to every list of at most MaxTags tags of TagPool.      *)

TagPool ==
    {TagA100, TagA2210, TagB010, TagV120, TagV1100, TagV200, TagV200rc1, TagVx, TagRel1}

\* The prefixes the resolver is asked about.
QueryPrefixes == {<<>>, <<"a">>, <<"b">>}

TagLists ==
    UNION {{s \in [1..n -> TagPool] : \A i, j \in 1..n : i # j => s[i] # s[j]} : n \in 0..MaxTags}

InitFunctions ==
    /\ cmd = "functions"
    /\ flagPrefix = <<>>
    /\ isPathBased = TRUE
    /\ repoTags \in TagLists
    /\ pathCommits = <<>>
    /\ otherCommits = 0
    /\ InitCommon

\* prefixes, err = collectTagPrefixesFromGit()
FnCollect ==
    /\ cmd = "functions" /\ pc = "start"
    /\ \E gitFails \in BOOLEAN :
         /\ \E order \in Orders(collectTagPrefixesFromGit(repoTags, gitFails)) :
                prefixes' = order
         /\ executed' = Append(executed, Ran("tag-all", <<>>))
         /\ failed' = IF gitFails THEN Append(failed, Ran("tag-all", <<>>)) ELSE failed
    /\ pc' = "collected"
    /\ UNCHANGED <<cmd, defaultBranch, flagPrefix,
                   isPathBased, repoTags, pathCommits, otherCommits,
                   ret, task, lock, results, egErr, printed, selectedPrefix,
                   versionOptions, newVersion, current, answers>>

\* current, err = getCurrentVersion(p)
FnResolve ==
    /\ cmd = "functions" /\ pc = "collected"
    /\ \E p \in QueryPrefixes, gitFails \in BOOLEAN :
         /\ selectedPrefix' = p
         /\ current' = getCurrentVersion(p, repoTags, gitFails)
         /\ executed' = Append(executed, Ran("tag-list", MatchPrefix(p)))
         /\ failed' = IF gitFails
                      THEN Append(failed, Ran("tag-list", MatchPrefix(p))) ELSE failed
    /\ pc' = "resolved"
    /\ UNCHANGED <<cmd, defaultBranch, flagPrefix,
                   isPathBased, repoTags, pathCommits, otherCommits,
                   prefixes, ret, task, lock, results, egErr, printed,
                   versionOptions, newVersion, answers>>

\* generateNewVersionOptions() on the resolver's answer
FnPropose ==
    /\ cmd = "functions" /\ pc = "resolved"
    /\ LET r == generateNewVersionOptions(current)
       IN  IF r.panic
           THEN pc' = "done" /\ ret' = "panic" /\ versionOptions' = versionOptions
           ELSE pc' = "proposed" /\ ret' = ret /\ versionOptions' = r.options
    /\ UNCHANGED <<cmd, defaultBranch, flagPrefix,
                   isPathBased, repoTags, pathCommits, otherCommits,
                   prefixes, failed, executed, task, lock, results, egErr, printed,
                   selectedPrefix, newVersion, current, answers>>

\* The operator picks an option; newTag and oldTag are built (lines 148-149)
\* as the arguments of git tag and of gh release --notes-start-tag.
FnPick ==
    /\ cmd = "functions" /\ pc = "proposed"
    /\ \E i \in 1..Len(versionOptions) :
         /\ validateVersion(versionOptions[i].value)
         /\ newVersion' = versionOptions[i].value
         /\ executed' = executed \o
                <<Ran("tag", getGitTagFromVersion(selectedPrefix, versionOptions[i].value)),
                  Ran("notes-start-tag", getGitTagFromVersion(selectedPrefix, current.version))>>
    /\ pc' = "done" /\ ret' = "ok"
    /\ UNCHANGED <<cmd, defaultBranch, flagPrefix,
                   isPathBased, repoTags, pathCommits, otherCommits,
                   prefixes, failed, task, lock, results, egErr, printed,
                   selectedPrefix, versionOptions, current, answers>>

NextFunctions == FnCollect \/ FnResolve \/ FnPropose \/ FnPick

SpecFunctions == InitFunctions /\ [][NextFunctions]_vars

----------------------------------------------------------------------------
(* verify on a repository with more prefixes than the pool has slots.      *)

\* The i-th prefix of the repository: a1, a2, a3, ...
PoolPrefix(i) == <<"a">> \o NatToStr(i)

V100 == <<"1", ".", "0", ".", "0">>

\* One prefix more than the pool has slots, each with one tag <prefix>/v1.0.0.
PoolPrefixes == [i \in 1..(PoolLimit + 1) |-> PoolPrefix(i)]
PoolRepo == [i \in 1..(PoolLimit + 1) |-> getGitTagFromVersion(PoolPrefix(i), V100)]

\* A task that has resolved its version and counted its changes, about to
\* take the lock.
AtLock(p) ==
    [pc |-> "lock", prefix |-> p, version |-> V100, numChanges |-> 1,
     err |-> NoErr, ran |-> <<"tag-list", "log">>]

\* verify after discovery, the pool full: Go has started a task for each of
\* the first PoolLimit prefixes and each has run its two queries; the first
\* has appended its result and is about to unlock, the others wait for the
\* lock. The loop has one more prefix to dispatch.
InitPool ==
    /\ cmd = "verify" /\ defaultBranch = Main /\ flagPrefix = <<>> /\ isPathBased = TRUE
    /\ repoTags = PoolRepo
    /\ pathCommits = [p \in Range(PoolPrefixes) |-> 1]
    /\ otherCommits = 0
    /\ pc = "dispatch" /\ prefixes = PoolPrefixes /\ ret = "none"
    /\ failed = <<>> /\ executed = <<Ran("tag-all", <<>>)>>
    /\ task = [t \in 1..PoolLimit |->
                   IF t = 1 THEN [AtLock(PoolPrefixes[t]) EXCEPT !.pc = "unlock"]
                   ELSE AtLock(PoolPrefixes[t])]
    /\ lock = 1 /\ results = <<[prefix |-> PoolPrefixes[1], numChanges |-> 1]>>
    /\ egErr = NoErr /\ printed = <<>>
    /\ selectedPrefix = <<>> /\ versionOptions = <<>> /\ newVersion = <<>>
    /\ current = NoVersion /\ answers = <<>>

NextPool ==
    \/ VerifyGo
    \/ \E t \in 1..Len(task) : TaskResolve(t)
    \/ \E t \in 1..Len(task) : TaskCheck(t)
    \/ \E t \in 1..Len(task) : TaskLock(t)
    \/ \E t \in 1..Len(task) : TaskAppend(t)
    \/ \E t \in 1..Len(task) : TaskUnlock(t)
    \/ VerifyWait
    \/ VerifyReport

SpecPool == InitPool /\ [][NextPool]_vars

\* The same run under a fair scheduler with git commands that return: a step
\* that can be taken is taken in the end.
SpecPoolFair == SpecPool /\ WF_vars(NextPool)

----------------------------------------------------------------------------
(* The checks of verify run one after the other, as the reference the      *)
(* concurrent run is compared with.                                        *)

\* The body of the tasks (getCurrentVersion, then checkForUpdates) for each
\* prefix in turn, stopping at the first error as the loop of the first
\* version of cmd/verify.go did; no command fails but for what the
\* repository holds.
RECURSIVE SequentialResults(_)
SequentialResults(ps) ==
    IF ps = <<>> THEN <<>>
    ELSE LET p   == Head(ps)
             cur == getCurrentVersion(p, repoTags, FALSE)
             r   == checkForUpdates(p, cur.version, FALSE)
         IN  IF cur.err \/ r.err THEN <<>>
             ELSE <<[prefix |-> p, numChanges |-> r.numChanges]>>
                      \o SequentialResults(Tail(ps))

----------------------------------------------------------------------------
(* Claims about verify. *)

\* a < b in bytewise lexicographic order.
LexLess(a, b) ==
    \E k \in 1..Len(b) :
        /\ k - 1 <= Len(a)
        /\ SubSeq(a, 1, k - 1) = SubSeq(b, 1, k - 1)
        /\ (Len(a) = k - 1 \/ Ord(a[k]) < Ord(b[k]))

VerifySucceeded == cmd = "verify" /\ pc = "done" /\ ret = "ok"

SomeTaskFailed == \E t \in 1..Len(task) : task[t].err # NoErr

C2_ConcurrentCollectsSequential ==
    cmd = "verify" =>
        /\ \A i, j \in 1..Len(results) : i # j => results[i].prefix # results[j].prefix
        /\ (pc # "start" /\ AllTasksDone /\ egErr = NoErr) =>
               /\ Len(results) = Len(prefixes)
               /\ Range(results) = Range(SequentialResults(prefixes))

\* Three tasks have returned without error and the results arrived in another
\* order than the prefixes were dispatched in.
C2_Witness ==
    /\ cmd = "verify" /\ AllTasksDone /\ egErr = NoErr
    /\ Len(results) = 3
    /\ results[1].prefix = prefixes[3]
    /\ results[3].prefix = prefixes[2]

\* C3: once a task has failed, verify prints no report line and does not
\* succeed; it returns its error only when every task has returned, and it
\* does return an error, whatever other tasks collected.
C3_AllOrNothing ==
    cmd = "verify" =>
        /\ (SomeTaskFailed => printed = <<>> /\ ret # "ok" /\ pc # "report")
        /\ (ret = "error" =>
               /\ Len(task) = Len(prefixes)
               /\ \A t \in 1..Len(task) : task[t].pc = "done"
               /\ printed = <<>>)
        /\ (pc = "done" /\ SomeTaskFailed => ret = "error")

\* verify has returned an error although the task dispatched last succeeded
\* and two results were collected.
C3_Witness ==
    /\ cmd = "verify" /\ ret = "error"
    /\ Len(task) = 3
    /\ task[1].err # NoErr
    /\ task[3].err = NoErr
    /\ Len(results) = 2

\* One order of a set, the same for every run.
CanonicalOrder(S) == CHOOSE o \in Orders(S) : TRUE

\* The report of the results collected one after the other in canonical order.
ExpectedReport ==
    LET sorted == SortedFunc(SequentialResults(CanonicalOrder(Range(prefixes))))
    IN  [i \in 1..Len(sorted) |-> ReportLine(sorted[i])]

\* C4: the report printed depends on the repository and the set of prefixes
\* only: whatever order the prefixes were dispatched and the results arrived
\* in, it is the report of the canonical sequential run.
C4_ReportDeterministic == VerifySucceeded => printed = ExpectedReport

\* A report of three prefixes, two of them with equal counts, whose results
\* arrived in reverse report order.
C4_Witness ==
    /\ VerifySucceeded
    /\ Len(printed) = 3
    /\ printed[1].numChanges = printed[2].numChanges
    /\ results[1].prefix = printed[3].prefix
    /\ results[2].prefix = printed[2].prefix
    /\ results[3].prefix = printed[1].prefix

----------------------------------------------------------------------------
(* Claims about the resolver, the proposer and the extractor. *)

ResolverActed == cmd = "functions" /\ pc \in {"resolved", "proposed", "done"}

ResolverQuery == Ran("tag-list", MatchPrefix(selectedPrefix))

\* The tags of the repository the resolver's pattern matches.
MatchingTags(p) == {t \in Range(repoTags) : HasPrefix(t, MatchPrefix(p))}

\* Their versions, for those that have one.
MatchingVersions(p) ==
    {NewSemver(TrimPrefix(t, MatchPrefix(p))) :
        t \in {u \in MatchingTags(p) : NewSemver(TrimPrefix(u, MatchPrefix(p))).ok}}

\* C5: for a prefix with matching tags, the resolver answers the greatest of
\* their versions (segments compared as numbers, a prerelease below its
\* release), in whatever order git lists the tags.
C5_ResolverAnswersMaximum ==
    (/\ ResolverActed
     /\ ResolverQuery \notin Range(failed)
     /\ MatchingVersions(selectedPrefix) # {}) =>
        /\ ~current.err
        /\ NewSemver(current.version).ok
        /\ \A v \in MatchingVersions(selectedPrefix) :
               VersionCompare(NewSemver(current.version), v) >= 0

\* C6: the resolver answers an error when no tag matches the prefix and when
\* the tag listing fails.
C6_ResolverErrors ==
    (/\ ResolverActed
     /\ (MatchingTags(selectedPrefix) = {} \/ ResolverQuery \in Range(failed))) =>
        current.err

ProposerActed == cmd = "functions" /\ versionOptions # <<>>

\* A version written as exactly three numbers and nothing else.
IsPlainTriple(s, a, b, c) ==
    /\ Len(Split(s, ".")) = 3
    /\ Head(s) \in Digits
    /\ NewSemver(s) = [ok |-> TRUE, seg |-> <<a, b, c>>, pre |-> <<>>]

\* C7: for a current version M.N.P the options are patch M.N.(P+1), minor
\* M.(N+1).0 and major (M+1).0.0 in this order, and for M.N.P-pre the same
\* three after a first option, remove prerelease M.N.P; the first option is
\* there only for a version with a prerelease.
C7_ProposerOptions ==
    ProposerActed =>
        LET v    == NewSemver(current.version)
            M    == v.seg[1]
            N    == v.seg[2]
            P    == v.seg[3]
            n    == Len(versionOptions)
            opts == versionOptions
        IN  /\ ~current.err /\ v.ok
            /\ n = IF v.pre = <<>> THEN 3 ELSE 4
            /\ n = 4 => /\ opts[1].kind = "remove prerelease"
                        /\ IsPlainTriple(opts[1].value, M, N, P)
            /\ opts[n - 2].kind = "patch" /\ IsPlainTriple(opts[n - 2].value, M, N, P + 1)
            /\ opts[n - 1].kind = "minor" /\ IsPlainTriple(opts[n - 1].value, M, N + 1, 0)
            /\ opts[n].kind = "major" /\ IsPlainTriple(opts[n].value, M + 1, 0, 0)

\* The options for 2.0.0-rc1: four of them.
C7_Witness ==
    /\ ProposerActed
    /\ current.version = <<"2", ".", "0", ".", "0", "-", "r", "c", "1">>
    /\ Len(versionOptions) = 4

ExtractorActed ==
    cmd = "functions" /\ pc # "start" /\ Ran("tag-all", <<>>) \notin Range(failed)

\* tag[i..] starts "/v<digit>".
IsMarker(tag, i) ==
    i + 2 <= Len(tag) /\ tag[i] = "/" /\ tag[i + 1] = "v" /\ tag[i + 2] \in Digits

Markers(tag) == {i \in 1..Len(tag) : IsMarker(tag, i)}

\* tag is v<digits>... with no "/v<digit>" in it.
IsBareVersion(tag) ==
    Len(tag) >= 2 /\ tag[1] = "v" /\ tag[2] \in Digits /\ Markers(tag) = {}

NoDuplicates(s) == \A i, j \in 1..Len(s) : i # j => s[i] # s[j]

\* C8 as stated: every <seg> with which a tag reads <seg>/v<digits>... is in
\* the result, the empty prefix is for each tag v<digits>..., nothing else is
\* in the result, and no prefix is twice in it.
C8_EverySegment ==
    ExtractorActed =>
        /\ NoDuplicates(prefixes)
        /\ Range(prefixes) =
               UNION {{SubSeq(t, 1, i - 1) : i \in Markers(t)} : t \in Range(repoTags)}
                   \cup {<<>> : t \in {u \in Range(repoTags) : IsBareVersion(u)}}

Max(S) == CHOOSE m \in S : \A k \in S : k <= m

\* C8, amended: a tag that reads <seg>/v<digits>... contributes its longest
\* such <seg>, the text before its last "/v<digit>", and only that one; a tag
\* v<digits>... with no "/v<digit>" in it contributes the empty prefix; other
\* tags contribute nothing, and no prefix is twice in the result.
C8_LongestSegment ==
    ExtractorActed =>
        /\ NoDuplicates(prefixes)
        /\ Range(prefixes) =
               {SubSeq(t, 1, Max(Markers(t)) - 1) :
                    t \in {u \in Range(repoTags) : Markers(u) # {}}}
                   \cup {<<>> : t \in {u \in Range(repoTags) : IsBareVersion(u)}}

\* The extractor has run on a tag with two version markers, a bare version
\* tag and a tag that is no version.
C8_Witness ==
    /\ ExtractorActed
    /\ Range(repoTags) = {TagA2210, TagV120, TagRel1}
    /\ Len(prefixes) = 2

----------------------------------------------------------------------------
(* Claims about the commands as a whole. *)

Did(name) == \E i \in 1..Len(executed) : executed[i][1] = name
Failed(name) == \E i \in 1..Len(failed) : failed[i][1] = name
Position(name) == CHOOSE i \in 1..Len(executed) : executed[i][1] = name

\* C9: select pushes only after the tag was created and the operator said yes
\* to the first question, creates the release only after the push succeeded
\* and the operator said yes to the second question, and a no ends the
\* command with success before the step asked about.
C9_SelectStepsInOrder ==
    cmd = "select" =>
        /\ Did("push") =>
               /\ Did("tag") /\ ~Failed("tag") /\ Position("tag") < Position("push")
               /\ Len(answers) >= 1 /\ answers[1] = "yes"
        /\ Did("release") =>
               /\ Did("push") /\ ~Failed("push") /\ Position("push") < Position("release")
               /\ Len(answers) >= 2 /\ answers[2] = "yes"
        /\ (answers # <<>> /\ answers[Len(answers)] = "no") =>
               /\ pc = "done" /\ ret = "ok"
               /\ ~Did("release")
               /\ (Len(answers) = 1 => ~Did("push"))
        /\ (answers # <<>> => Did("tag") /\ ~Failed("tag"))

\* The operator said yes to the push and no to the release.
C9_Witness ==
    /\ cmd = "select"
    /\ answers = <<"yes", "no">>
    /\ Did("push") /\ ret = "ok"

\* C10: a command during which an external command failed ends with an error;
\* the failed command is the last one its goroutine ran, and it was run once.
C10_FailuresEndTheCommand ==
    /\ (pc = "done" /\ (failed # <<>> \/ SomeTaskFailed)) => ret \in {"error", "panic"}
    /\ failed # <<>> => failed = <<executed[Len(executed)]>>
    /\ \A t \in 1..Len(task) :
           task[t].err # NoErr =>
               /\ task[t].pc = "done"
               /\ task[t].ran \in {<<"tag-list">>, <<"tag-list", "log">>}
               /\ task[t].prefix \notin {results[i].prefix : i \in 1..Len(results)}

----------------------------------------------------------------------------
(* C11..C20 *)

\* Discovery has run and found nothing, with no --prefix given.
NothingDiscovered ==
    /\ pc # "start"
    /\ flagPrefix = <<>>
    /\ prefixes = <<>>

\* C11: in select and in verify alike, a run without --prefix whose discovery
\* finds no prefix fails (NoPrefixesFound): it never ends well with no work done.
C11_NoPrefixesIsAnError ==
    (cmd \in {"select", "verify"} /\ NothingDiscovered /\ pc = "done")
        => ret = "error"

\* The git command whose failure an error of a task reports.
CommandOf(e) == IF e[1] = "version" THEN "tag-list" ELSE "log"

\* C12: every collected result pairs a prefix with the count computed for that
\* prefix from the version resolved for that prefix, whatever happened to the
\* other tasks; and the error verify returns names a prefix whose own version
\* lookup or history query failed.
C12_TasksKeepToTheirPrefix ==
    /\ \A i \in 1..Len(results) :
           LET p   == results[i].prefix
               cur == getCurrentVersion(p, repoTags, FALSE)
               r   == checkForUpdates(p, cur.version, FALSE)
           IN  /\ ~cur.err /\ ~r.err
               /\ results[i].numChanges = r.numChanges
               /\ \E t \in 1..Len(task) : task[t].prefix = p /\ task[t].err = NoErr
    /\ egErr # NoErr =>
           \E t \in 1..Len(task) :
               /\ task[t].prefix = egErr[2]
               /\ task[t].pc = "done"
               /\ task[t].err = egErr
               /\ task[t].ran[Len(task[t].ran)] = CommandOf(egErr)
               /\ task[t].prefix \notin {results[i].prefix : i \in 1..Len(results)}
    /\ (cmd = "verify" /\ pc = "done" /\ ret = "error") => egErr # NoErr

\* A task other than the first failed, and the first task's result is collected.
C12_Witness ==
    /\ cmd = "verify" /\ pc = "done" /\ ret = "error"
    /\ Len(prefixes) >= 2
    /\ egErr[2] # prefixes[1]
    /\ \E i \in 1..Len(results) : results[i].prefix = prefixes[1] /\ results[i].numChanges > 0

\* The argument the log holds for the command called name.
ArgOf(name) == (CHOOSE i \in 1..Len(executed) : executed[i][1] = name)
Built(name) == executed[ArgOf(name)][2]

\* C13: a tag built by getGitTagFromVersion from a prefix and a version begins
\* with the resolver's match prefix of that prefix, and stripping the match
\* prefix gives the version back; for the root prefix as for the others.
C13_TagRoundTrip ==
    (cmd = "functions" /\ pc = "done" /\ ret = "ok") =>
        /\ validateVersion(newVersion)
        /\ HasPrefix(Built("tag"), MatchPrefix(selectedPrefix))
        /\ TrimPrefix(Built("tag"), MatchPrefix(selectedPrefix)) = newVersion
        /\ HasPrefix(Built("notes-start-tag"), MatchPrefix(selectedPrefix))
        /\ TrimPrefix(Built("notes-start-tag"), MatchPrefix(selectedPrefix)) = current.version

\* Both tags were built for a prefix that is not the root.
C13_Witness ==
    /\ cmd = "functions" /\ pc = "done" /\ ret = "ok"
    /\ selectedPrefix = <<"a">>
    /\ Built("tag") = <<"a", "/", "v", "1", ".", "0", ".", "1">>
    /\ Built("notes-start-tag") = TagA100

\* The tasks dispatched before task t that have returned.
DoneBefore(t) == Cardinality({u \in 1..(t - 1) : task[u].pc = "done"})

\* C14: the tasks started and not yet finished never number more than the
\* limit runtime.NumCPU() * 8, and a task beyond the limit was dispatched only
\* after enough earlier tasks had finished to leave it a slot.
C14_PoolIsBounded ==
    /\ Active <= PoolLimit
    /\ \A t \in 1..Len(task) : DoneBefore(t) >= t - PoolLimit

\* The pool was full, one task finished, and the task that waited was started:
\* the pool is full again.
C14_Witness ==
    /\ Len(task) = PoolLimit + 1
    /\ task[Len(task)].pc # "done"
    /\ Active = PoolLimit

\* The tasks between their lock.Lock() and their deferred lock.Unlock().
Holders == {t \in 1..Len(task) : task[t].pc \in {"append", "unlock"}}

\* In every state: one holder at most, who is the task the lock names and has
\* both queries behind it without an error; a failed task holds nothing.
LockState ==
    /\ Cardinality(Holders) <= 1
    /\ \A t \in Holders : lock = t
    /\ lock # 0 => lock \in Holders
    /\ \A t \in Holders : task[t].err = NoErr /\ task[t].ran = <<"tag-list", "log">>
    /\ \A t \in 1..Len(task) : task[t].err # NoErr => task[t].pc = "done" /\ lock # t

\* In every step: the results slice changes only by the append of the task
\* that holds the lock, and the lock is taken only when free, by a task that
\* has not failed and has both queries behind it.
LockStep ==
    /\ results' # results =>
           /\ lock # 0 /\ lock' = lock
           /\ task[lock].pc = "append"
           /\ results' = Append(results, [prefix |-> task[lock].prefix,
                                          numChanges |-> task[lock].numChanges])
    /\ (lock' # lock /\ lock' # 0) =>
           /\ lock = 0
           /\ task[lock'].pc = "lock"
           /\ task[lock'].err = NoErr
           /\ task[lock'].ran = <<"tag-list", "log">>

\* C15: at most one task holds the collector lock, every append to results is
\* made by the task that holds it, no task holds it during getCurrentVersion or
\* checkForUpdates, and a task that failed never takes it.
C15_LockDiscipline == [](LockState) /\ [][LockStep]_vars

\* One task holds the lock while a second waits for it and a third has failed.
C15_Witness ==
    /\ lock # 0 /\ task[lock].pc = "append"
    /\ \E t \in 1..Len(task) : task[t].pc = "lock"
    /\ \E t \in 1..Len(task) : task[t].err # NoErr

\* C16: when at least one tag that matches the prefix has a version that
\* parses, the version the resolver returns parses, wherever the tags that do
\* not parse stand in the listing.
C16_UnparseableTagsDiscarded ==
    (ResolverActed /\ ResolverQuery \notin Range(failed)
        /\ MatchingVersions(selectedPrefix) # {})
    => NewSemver(current.version).ok

\* Tag t starts with s followed by a digit.
StartsWithThenDigit(t, s) ==
    /\ HasPrefix(t, s)
    /\ Len(t) > Len(s)
    /\ t[Len(s) + 1] \in Digits

\* Some tag of the repository backs prefix p.
Backed(p) ==
    \E t \in Range(repoTags) :
        StartsWithThenDigit(t, IF p = <<>> THEN <<"v">> ELSE p \o <<"/", "v">>)

\* C17: every prefix collectTagPrefixesFromGit returns is backed by a tag: a
\* prefix p that is not empty by a tag that starts p/v<digit>, the empty prefix
\* by a tag that starts v<digit>.
C17_PrefixesAreBacked ==
    (cmd = "functions" /\ pc # "start") => \A i \in 1..Len(prefixes) : Backed(prefixes[i])

\* The root prefix and another were returned from a listing that also holds a
\* tag the pattern does not match.
C17_Witness ==
    /\ ExtractorActed
    /\ Range(prefixes) = {<<>>, <<"a">>}
    /\ TagRel1 \in Range(repoTags)

\* The tag whose version the resolver answered.
AnsweredTag == getGitTagFromVersion(selectedPrefix, current.version)

\* C18: the resolver never answers the version of a tag that is not reachable
\* from origin/<defaultBranch>, even when that version is the greatest.
C18_OnlyReachableTags ==
    (ResolverActed /\ ResolverQuery \notin Range(failed) /\ ~current.err)
        => AnsweredTag \notin SideBranchTags

\* The tasks whose history query has returned a count.
Counted == {t \in 1..Len(task) : task[t].err = NoErr /\ task[t].ran = <<"tag-list", "log">>}

\* The commits of <tag>..origin/<defaultBranch>: those under the prefix's path
\* and the others.
AllCommits(p) == pathCommits[p] + otherCommits

\* C19: the count of a prefix covers the commits under its path only when
\* path-based mode is on and the prefix is not the root; for the root prefix,
\* and with path-based mode off, it covers all commits of the range.
C19_PathScoping ==
    \A t \in Counted :
        LET p == task[t].prefix
        IN  /\ (isPathBased /\ p # <<>>) => task[t].numChanges = pathCommits[p]
            /\ (~isPathBased \/ p = <<>>) => task[t].numChanges = AllCommits(p)

\* In path-based mode, with a commit outside every path, the root prefix was
\* counted over all commits and another prefix over its own path.
C19_Witness ==
    /\ isPathBased /\ otherCommits > 0
    /\ \E t \in Counted : task[t].prefix = <<>> /\ task[t].numChanges = AllCommits(<<>>)
    /\ \E t \in Counted : task[t].prefix # <<>>
                          /\ task[t].numChanges < AllCommits(task[t].prefix)

\* verify has returned with nothing left behind: every prefix was dispatched,
\* every task has finished and the lock is free.
VerifyReturned ==
    /\ pc = "done"
    /\ ret \in {"ok", "error"}
    /\ Len(task) = Len(prefixes)
    /\ \A t \in 1..Len(task) : task[t].pc = "done"
    /\ lock = 0

\* The steps a task at a position of its body has left.
StepsLeft(at) ==
    CASE at = "resolve" -> 5
      [] at = "check" -> 4
      [] at = "lock" -> 3
      [] at = "append" -> 2
      [] at = "unlock" -> 1
      [] at = "done" -> 0

RECURSIVE TaskStepsLeft(_)
TaskStepsLeft(t) == IF t = 0 THEN 0 ELSE StepsLeft(task[t].pc) + TaskStepsLeft(t - 1)

\* A bound on the steps a verify run has left: the tasks still to dispatch
\* and to run, then eg.Wait and the report.
VerifyStepsLeft ==
    6 * (Len(prefixes) - Len(task)) + TaskStepsLeft(Len(task))
        + (CASE pc = "dispatch" -> 2 [] pc = "report" -> 1 [] pc = "done" -> 0)

\* Something in the run can take a step: the loop can dispatch (a prefix is
\* left and a slot is free), a task is at a statement that does not wait, a
\* task at lock.Lock() finds the lock free, eg.Wait has every task returned,
\* or the report is due.
CanStep ==
    \/ pc = "dispatch" /\ Len(task) < Len(prefixes) /\ Active < PoolLimit
    \/ \E t \in 1..Len(task) : task[t].pc \in {"resolve", "check", "append", "unlock"}
    \/ \E t \in 1..Len(task) : task[t].pc = "lock" /\ lock = 0
    \/ pc = "dispatch" /\ AllTasksDone
    \/ pc = "report"

\* C20: under a fair scheduler, with git commands that return, a verify run
\* over more prefixes than the pool has slots returns in the end: until verify
\* has returned some step can be taken (no task waits for ever for the lock or
\* for a slot, eg.Wait is not stuck), every step brings the return nearer, and
\* verify returns only when every task has finished.
C20_VerifyTerminates ==
    /\ [](VerifyReturned \/ CanStep)
    /\ [](pc = "done" => VerifyReturned)
    /\ [][VerifyStepsLeft' < VerifyStepsLeft]_vars

\* verify returned after the task that had to wait for a slot collected its
\* result.
C20_Witness ==
    /\ VerifyReturned
    /\ Len(task) > PoolLimit
    /\ Len(results) = Len(prefixes)

----------------------------------------------------------------------------
(* The program from its start: NewRootCommand, then select or verify. *)

OriginHead == Origin \o <<"H", "E", "A", "D">>

\* What exec.Command("git", "rev-parse", "--abbrev-ref", "origin/HEAD").Output()
\* returns, as (out, err): the branch origin/HEAD points to; or, with no
\* origin/HEAD, the argument echoed on standard output and exit status 128;
\* or nothing and an error, outside a repository or without git.
RevParseOutcomes ==
    {[out |-> Origin \o Main \o <<"\n">>, err |-> FALSE],
     [out |-> OriginHead \o <<"\n">>, err |-> TRUE],
     [out |-> <<>>, err |-> TRUE]}

\* The detection of NewRootCommand: defaultBranch after it, from defaultBranch
\* before it and the outcome of git rev-parse. The assignment of line 30 is
\* outside the if of lines 27-29 and runs whatever err is.
detectDefaultBranch(branch, o) ==
    IF branch = <<>>
    THEN LET afterIf     == IF o.err THEN Main ELSE branch
             afterAssign == TrimSpace(TrimPrefix(o.out, Origin))
         IN  afterAssign
    ELSE branch

\* NewRootCommand(), called by main before the command runs.
NewRootCommand ==
    /\ pc = "init"
    /\ \E o \in RevParseOutcomes :
         /\ defaultBranch' = detectDefaultBranch(defaultBranch, o)
         /\ executed' = Append(executed, Ran("rev-parse", OriginHead))
         /\ failed' = IF o.err THEN Append(failed, Ran("rev-parse", OriginHead)) ELSE failed
    /\ pc' = "start"
    /\ UNCHANGED <<cmd, flagPrefix, isPathBased, repoTags, pathCommits, otherCommits,
                   prefixes, ret, task, lock, results, egErr, printed,
                   selectedPrefix, versionOptions, newVersion, current, answers>>

InitRoot ==
    /\ cmd \in {"select", "verify"}
    /\ defaultBranch = <<>>
    /\ flagPrefix \in Flags
    /\ repoTags \in CliRepos
    /\ isPathBased = TRUE
    /\ pathCommits = [p \in RunPrefixes(flagPrefix, repoTags) |-> 1]
    /\ otherCommits = 0
    /\ pc = "init" /\ prefixes = <<>> /\ ret = "none"
    /\ failed = <<>> /\ executed = <<>>
    /\ task = <<>> /\ lock = 0 /\ results = <<>> /\ egErr = NoErr /\ printed = <<>>
    /\ selectedPrefix = <<>> /\ versionOptions = <<>> /\ newVersion = <<>>
    /\ current = NoVersion /\ answers = <<>>

NextRoot == NewRootCommand \/ Next

SpecRoot == InitRoot /\ [][NextRoot]_vars

\* The detection of the default branch failed at startup.
DetectionFailed == Ran("rev-parse", OriginHead) \in Range(failed)

\* C21: once NewRootCommand has returned, defaultBranch is not the empty
\* string, and it is "main" when the detection of origin/HEAD failed.
C21_FallbackIsMain ==
    pc # "init" =>
        /\ defaultBranch # <<>>
        /\ DetectionFailed => defaultBranch = Main

====
